---- MODULE Spec2Model ----
(***************************************************************************)
(* Model of vital.py: grouping of patient demographic rows by normalised   *)
(* "last^first" name, printed twice (insertion order, then every group      *)
(* sorted by descending numeric patient ID).                                *)
(*                                                                         *)
(* A Python str is modelled as a sequence of one-character strings, a      *)
(* Python list as a sequence, and the (insertion ordered) dict as a        *)
(* sequence of [key, value] entries in insertion order.  Python index i    *)
(* is index i+1 here.  A call that may raise returns a record              *)
(* [raised, error, value].                                                 *)
(***************************************************************************)
EXTENDS Integers, Sequences, FiniteSets, TLC

\* ---------------------------------------------------------------- bounds
MaxRows == 3
MaxNameLen == 5

MaxProbeLen == 3
MaxSuffixLen == 3

\* ------------------------------------------------------ results of calls
Ok(v) == [raised |-> FALSE, error |-> "", value |-> v]

Raise(e) == [raised |-> TRUE, error |-> e, value |-> <<>>]

NameError == "Exception: Name is not in a proper structure"

IndexError == "IndexError: list index out of range"

ValueError == "ValueError: invalid literal for int() with base 10"

FileNotFoundError == "FileNotFoundError: No such file or directory"

\* ------------------------------------------------------- str primitives
UpperCase == <<"A","B","C","D","E","F","G","H","I","J","K","L","M",
               "N","O","P","Q","R","S","T","U","V","W","X","Y","Z">>

LowerCase == <<"a","b","c","d","e","f","g","h","i","j","k","l","m",
               "n","o","p","q","r","s","t","u","v","w","x","y","z">>

\* str.lower() on one character
LowerChar(c) ==
  IF \E i \in 1..Len(UpperCase) : UpperCase[i] = c
  THEN LowerCase[CHOOSE i \in 1..Len(UpperCase) : UpperCase[i] = c]
  ELSE c

\* str.lower()
lower(s) == [i \in 1..Len(s) |-> LowerChar(s[i])]

\* str.split(sep) for a one-character separator: always at least one part
RECURSIVE split(_, _)
split(s, sep) ==
  IF \A i \in 1..Len(s) : s[i] # sep
  THEN <<s>>
  ELSE LET i == CHOOSE j \in 1..Len(s) :
                  s[j] = sep /\ \A k \in 1..(j-1) : s[k] # sep
       IN <<SubSeq(s, 1, i-1)>> \o split(SubSeq(s, i+1, Len(s)), sep)

\* sep.join(parts)
RECURSIVE join(_, _)
join(sep, parts) ==
  IF Len(parts) = 0 THEN <<>>
  ELSE IF Len(parts) = 1 THEN parts[1]
  ELSE parts[1] \o sep \o join(sep, Tail(parts))

Digits == <<"0","1","2","3","4","5","6","7","8","9">>

IsDigit(c) == \E i \in 1..Len(Digits) : Digits[i] = c

DigitValue(c) == (CHOOSE i \in 1..Len(Digits) : Digits[i] = c) - 1

\* '{0}'.format(n) for n >= 0
RECURSIVE format(_)
format(n) ==
  IF n < 10 THEN <<Digits[n+1]>>
  ELSE format(n \div 10) \o <<Digits[(n % 10) + 1]>>

\* str.strip() restricted to the blank
RECURSIVE strip(_)
strip(s) ==
  IF Len(s) = 0 THEN s
  ELSE IF s[1] = " " THEN strip(Tail(s))
  ELSE IF s[Len(s)] = " " THEN strip(SubSeq(s, 1, Len(s)-1))
  ELSE s

\* value of a digit string that may hold '_' separators
RECURSIVE DigitsValue(_, _)
DigitsValue(s, acc) ==
  IF Len(s) = 0 THEN acc
  ELSE IF s[1] = "_" THEN DigitsValue(Tail(s), acc)
  ELSE DigitsValue(Tail(s), 10 * acc + DigitValue(s[1]))

\* the digit part int() accepts: digits, single '_' only between digits
ValidDigits(s) ==
  /\ Len(s) > 0
  /\ \A i \in 1..Len(s) : IsDigit(s[i]) \/ s[i] = "_"
  /\ IsDigit(s[1])
  /\ IsDigit(s[Len(s)])
  /\ \A i \in 1..(Len(s)-1) : ~(s[i] = "_" /\ s[i+1] = "_")

\* int(s), base 10: blanks stripped, optional sign, digits
int(s) ==
  LET t == strip(s)
      signed == Len(t) > 0 /\ t[1] \in {"-", "+"}
      body == IF signed THEN Tail(t) ELSE t
  IN IF ~ValidDigits(body) THEN Raise(ValueError)
     ELSE IF signed /\ t[1] = "-" THEN Ok(0 - DigitsValue(body, 0))
     ELSE Ok(DigitsValue(body, 0))

\* ------------------------------------------------------------ vital.py
\* createKey without the branch that drops the middle name
createKeyWholeName(completeName) ==
  LET lowered == lower(completeName)
      nameLength == Len(split(lowered, "^"))
  IN IF nameLength \in {2, 3} THEN Ok(lowered) ELSE Raise(NameError)

\* createKey(completeName): lowercase 'last^first', middle name dropped
createKey(completeName) ==
  LET lowered == lower(completeName)
      name == split(lowered, "^")
      nameLength == Len(name)
  IN IF nameLength = 2 THEN Ok(lowered)
     ELSE IF nameLength = 3 THEN Ok(name[1] \o <<"^">> \o name[2])
     ELSE Raise(NameError)

\* position of currentKey in the dict, 0 when absent
KeyIndex(dict, currentKey) ==
  IF \E i \in 1..Len(dict) : dict[i].key = currentKey
  THEN CHOOSE i \in 1..Len(dict) : dict[i].key = currentKey
  ELSE 0

\* setdefault that puts a new key in front of the others
setdefaultFront(dict, currentKey) ==
  IF KeyIndex(dict, currentKey) = 0
  THEN <<[key |-> currentKey, value |-> <<>>]>> \o dict
  ELSE dict

\* dict.setdefault(currentKey, []): a new key goes to the end
setdefault(dict, currentKey) ==
  IF KeyIndex(dict, currentKey) = 0
  THEN Append(dict, [key |-> currentKey, value |-> <<>>])
  ELSE dict

\* assignment of [item] where the code appends
appendItemReplacing(dict, currentKey, item) ==
  [dict EXCEPT ![KeyIndex(dict, currentKey)].value = <<item>>]

\* dict[currentKey].append(item)
appendItem(dict, currentKey, item) ==
  [dict EXCEPT ![KeyIndex(dict, currentKey)].value = Append(@, item)]

\* the loop, returning the table built so far when createKey raises
RECURSIVE DictionaryLoopPartial(_, _, _)
DictionaryLoopPartial(data, i, dict) ==
  IF i > Len(data) THEN Ok(dict)
  ELSE LET item == data[i]
       IN IF Len(item) < 2 THEN Raise(IndexError)
          ELSE LET currentKey == createKey(item[2])
               IN IF currentKey.raised THEN Ok(dict)
                  ELSE DictionaryLoopPartial(data, i + 1,
                         appendItem(setdefault(dict, currentKey.value),
                                    currentKey.value, item))

\* the for loop of createDictionary from row i on; item[1] is item[2] here
RECURSIVE DictionaryLoop(_, _, _)
DictionaryLoop(data, i, dict) ==
  IF i > Len(data) THEN Ok(dict)
  ELSE LET item == data[i]
       IN IF Len(item) < 2 THEN Raise(IndexError)
          ELSE LET currentKey == createKey(item[2])
               IN IF currentKey.raised THEN Raise(currentKey.error)
                  ELSE DictionaryLoop(data, i + 1,
                         appendItem(setdefault(dict, currentKey.value),
                                    currentKey.value, item))

\* createDictionary that passes over the rows createKey raises for
createDictionarySkipping(data) ==
  DictionaryLoop(
    SelectSeq(data, LAMBDA item : Len(item) < 2 \/ ~createKey(item[2]).raised),
    1, <<>>)

createDictionary(data) == DictionaryLoop(data, 1, <<>>)

\* the lines printOutput writes for the groups from position g on
RECURSIVE OutputLines(_, _)
OutputLines(dict, g) ==
  IF g > Len(dict) THEN <<>>
  ELSE <<format(g - 1) \o <<":">>>>
       \o [i \in 1..Len(dict[g].value) |-> join(<<",">>, dict[g].value[i])]
       \o OutputLines(dict, g + 1)

printOutput(dict) == OutputLines(dict, 1)

\* str[3:]
DropPrefix(str) == SubSeq(str, 4, Len(str))

extractNumber(str) == int(DropPrefix(str))

reverse(v) == [i \in 1..Len(v) |-> v[Len(v) + 1 - i]]

\* stable ascending sort of <<number, item>> pairs: each pair is put behind
\* every pair already placed whose number is not larger
RECURSIVE StableSort(_)
StableSort(pairs) ==
  IF Len(pairs) = 0 THEN <<>>
  ELSE LET sorted == StableSort(SubSeq(pairs, 1, Len(pairs) - 1))
           p == pairs[Len(pairs)]
           k == Cardinality({i \in 1..Len(sorted) : sorted[i][1] <= p[1]})
       IN SubSeq(sorted, 1, k) \o <<p>> \o SubSeq(sorted, k + 1, Len(sorted))

\* a descending sort made of an ascending sort and one reversal
sortReverseUnstable(pairs) == reverse(StableSort(pairs))

\* list.sort(reverse=True) once every key is computed: the list is reversed,
\* sorted ascending and stable, and reversed again
sortReverse(pairs) == reverse(StableSort(reverse(pairs)))

\* a sort that keeps one record for every number
listSortDistinct(v) ==
  LET keys == [i \in 1..Len(v) |-> extractNumber(v[i][1])]
  IN IF \E i \in 1..Len(v) : keys[i].raised
     THEN Raise(ValueError)
     ELSE LET first == SelectSeq([i \in 1..Len(v) |-> i],
                         LAMBDA i : \A j \in 1..(i-1) :
                                      keys[j].value # keys[i].value)
              pairs == [n \in 1..Len(first) |->
                          <<keys[first[n]].value, v[first[n]]>>]
              done == reverse(StableSort(reverse(pairs)))
          IN Ok([i \in 1..Len(done) |-> done[i][2]])

\* v.sort(key=lambda arr: extractNumber(arr[0]), reverse=True): the keys are
\* computed first; if one raises, the list is left as it was
listSort(v) ==
  LET keys == [i \in 1..Len(v) |-> extractNumber(v[i][1])]
  IN IF \E i \in 1..Len(v) : keys[i].raised
     THEN Raise(ValueError)
     ELSE LET pairs == [i \in 1..Len(v) |-> <<keys[i].value, v[i]>>]
              done == sortReverse(pairs)
          IN Ok([i \in 1..Len(v) |-> done[i][2]])

\* the for loop of sortDictbyPidDesc from group g on; the lists are sorted in
\* place, so a raise leaves the groups before g sorted
RECURSIVE SortLoop(_, _)
SortLoop(dict, g) ==
  IF g > Len(dict) THEN Ok(dict)
  ELSE LET r == listSort(dict[g].value)
       IN IF r.raised THEN [raised |-> TRUE, error |-> r.error, value |-> dict]
          ELSE SortLoop([dict EXCEPT ![g].value = r.value], g + 1)

sortDictbyPidDesc(dict) == SortLoop(dict, 1)

\* -------------------------------------------------------------- inputs
\* every sequence over S of length at most n
SeqsUpTo(S, n) == UNION {[1..k -> S] : k \in 0..n}

PID(suffix) == <<"P","I","D">> \o suffix

POND_AMY == <<"P","O","N","D","^","A","M","Y">>

pond_amy_j == <<"p","o","n","d","^","a","m","y","^","j">>

WILLIAMS_RORY == <<"W","I","L","L","I","A","M","S","^","R","O","R","Y">>

POND == <<"P","O","N","D">>

Sex == <<"F">>

DateOfBirth == <<"1","9","8","9","0","2","2","4">>

\* a row of the four fields the tool expects
Row(id, name) == <<id, name, Sex, DateOfBirth>>

SampleNames == {POND_AMY, pond_amy_j}

SampleIds == {PID(<<"1">>), PID(<<"3">>), PID(<<"0","1">>)}

\* a second patient, a name without '^', an ID without a number, and the rows
\* csv.reader yields for lines of 1, 3 and 5 fields
OtherRows ==
  { Row(PID(<<"2">>), WILLIAMS_RORY),
    Row(PID(<<"1">>), POND),
    Row(<<"X","Y","Z","q">>, POND_AMY),
    <<PID(<<"1">>)>>,
    <<PID(<<"4">>), POND_AMY, Sex>>,
    Row(PID(<<"5">>), POND_AMY) \o <<<<"x">>>> }

SampleRows ==
  {Row(id, name) : id \in SampleIds, name \in SampleNames} \cup OtherRows

NameAlphabet == {"A", "a", "b", "^"}

SuffixAlphabet == {"0", "1", "-", "+", " ", "_", "x"}

\* the names createKey is tried on by itself
GenNames == SeqsUpTo(NameAlphabet, MaxNameLen)

\* the names tried inside a run of main
ProbeNames == SeqsUpTo(NameAlphabet, MaxProbeLen)

GenIds == {PID(suffix) : suffix \in SeqsUpTo(SuffixAlphabet, MaxSuffixLen)}
            \cup {<<>>, <<"P">>, <<"P","I">>}

\* a probe row behind and before a well-formed row
Around(row, good) == {<<good, row>>, <<row, good>>}

NameProbes ==
  UNION {Around(Row(PID(<<"2">>), name), Row(PID(<<"1">>), <<"a","^","b">>)) :
           name \in ProbeNames}

IdProbes ==
  UNION {Around(Row(id, POND_AMY), Row(PID(<<"1">>), POND_AMY)) : id \in GenIds}

\* the contents of the files a run may be given
InputFiles == SeqsUpTo(SampleRows, MaxRows) \cup NameProbes \cup IdProbes

\* ---------------------------------------------------------------- state
VARIABLES pc, data, namesDictionary, sortedDictionary, stdout, error,
          completeName, key

vars == <<pc, data, namesDictionary, sortedDictionary, stdout, error,
          completeName, key>>

Marker == <<"Different version, sorted by PID number">>

NoKey == [raised |-> FALSE, error |-> "", value |-> <<>>]

\* main() is about to read the file named on the command line
Init ==
  /\ pc = "readInputFile"
  /\ data = <<>>
  /\ namesDictionary = <<>>
  /\ sortedDictionary = <<>>
  /\ stdout = <<>>
  /\ error = ""
  /\ completeName = <<>>
  /\ key = NoKey

\* data = readInputFile(args.input_file): the rows of the file, whatever
\* their number of fields
ReadInputFile ==
  /\ pc = "readInputFile"
  /\ \E rows \in InputFiles : data' = rows
  /\ pc' = "createDictionary"
  /\ UNCHANGED <<namesDictionary, sortedDictionary, stdout, error,
                 completeName, key>>

\* open() raises for a file that is not there
ReadMissingFile ==
  /\ pc = "readInputFile"
  /\ pc' = "raised"
  /\ error' = FileNotFoundError
  /\ UNCHANGED <<data, namesDictionary, sortedDictionary, stdout,
                 completeName, key>>

\* namesDictionary = createDictionary(data)
CreateDictionary ==
  /\ pc = "createDictionary"
  /\ LET r == createDictionary(data)
     IN IF r.raised
        THEN /\ pc' = "raised"
             /\ error' = r.error
             /\ namesDictionary' = namesDictionary
        ELSE /\ pc' = "printOutput"
             /\ error' = error
             /\ namesDictionary' = r.value
  /\ UNCHANGED <<data, sortedDictionary, stdout, completeName, key>>

\* printOutput(namesDictionary)
PrintOutput ==
  /\ pc = "printOutput"
  /\ stdout' = stdout \o printOutput(namesDictionary)
  /\ pc' = "printMarker"
  /\ UNCHANGED <<data, namesDictionary, sortedDictionary, error,
                 completeName, key>>

\* print("Different version, sorted by PID number")
PrintMarker ==
  /\ pc = "printMarker"
  /\ stdout' = Append(stdout, Marker)
  /\ pc' = "sortDictbyPidDesc"
  /\ UNCHANGED <<data, namesDictionary, sortedDictionary, error,
                 completeName, key>>

\* sortedDictionary = sortDictbyPidDesc(namesDictionary): the dict is sorted
\* in place and returned, so both names hold the same object
SortDictbyPidDesc ==
  /\ pc = "sortDictbyPidDesc"
  /\ LET r == sortDictbyPidDesc(namesDictionary)
     IN /\ namesDictionary' = r.value
        /\ IF r.raised
           THEN /\ pc' = "raised"
                /\ error' = r.error
                /\ sortedDictionary' = sortedDictionary
           ELSE /\ pc' = "printSorted"
                /\ error' = error
                /\ sortedDictionary' = r.value
  /\ UNCHANGED <<data, stdout, completeName, key>>

\* printOutput(sortedDictionary)
PrintSorted ==
  /\ pc = "printSorted"
  /\ stdout' = stdout \o printOutput(sortedDictionary)
  /\ pc' = "done"
  /\ UNCHANGED <<data, namesDictionary, sortedDictionary, error,
                 completeName, key>>

Next ==
  \/ ReadInputFile
  \/ ReadMissingFile
  \/ CreateDictionary
  \/ PrintOutput
  \/ PrintMarker
  \/ SortDictbyPidDesc
  \/ PrintSorted

Spec == Init /\ [][Next]_vars

\* ------------------------------------------------- createKey on its own
InitKey ==
  /\ pc = "createKey"
  /\ completeName \in GenNames
  /\ key = NoKey
  /\ data = <<>>
  /\ namesDictionary = <<>>
  /\ sortedDictionary = <<>>
  /\ stdout = <<>>
  /\ error = ""

\* key = createKey(completeName)
CreateKey ==
  /\ pc = "createKey"
  /\ key' = createKey(completeName)
  /\ pc' = "returned"
  /\ UNCHANGED <<data, namesDictionary, sortedDictionary, stdout,
                 error, completeName>>

NextKey == CreateKey

SpecKey == InitKey /\ [][NextKey]_vars

\* ------------------------------------------------------------ properties
Parts(name) == split(name, "^")

Malformed(name) == Len(Parts(name)) \notin {2, 3}

\* the rows of the input that have a name field, and that field is malformed
HasMalformedName(rows) ==
  \E i \in 1..Len(rows) : Len(rows[i]) >= 2 /\ Malformed(rows[i][2])

Count(s, x) == Cardinality({i \in 1..Len(s) : s[i] = x})

\* s and t hold the same elements, each as often in s as in t
SameMultiset(s, t) ==
  /\ Len(s) = Len(t)
  /\ \A i \in 1..Len(s) : Count(s, s[i]) = Count(t, s[i])

RECURSIVE Flatten(_)
Flatten(dict) ==
  IF Len(dict) = 0 THEN <<>> ELSE dict[1].value \o Flatten(Tail(dict))

KeyOf(row) == createKey(row[2]).value

Number(row) == extractNumber(row[1]).value

\* the positions of the rows whose key no earlier row has, in input order
FirstOccurrences(rows) ==
  LET keys == [i \in 1..Len(rows) |-> KeyOf(rows[i])]
  IN SelectSeq([i \in 1..Len(rows) |-> i],
               LAMBDA i : \A j \in 1..(i-1) : keys[j] # keys[i])

\* main holds the table createDictionary returned, not yet sorted
Grouped == pc \in {"printOutput", "printMarker", "sortDictbyPidDesc"}

\* sortDictbyPidDesc has returned
Sorted == pc \in {"printSorted", "done"}

\* sortDictbyPidDesc has returned or raised
AfterSort == Sorted \/ (pc = "raised" /\ error = ValueError)

\* the table as createDictionary built it
Before == createDictionary(data).value

\* C1: when createDictionary succeeds, the records of all groups together are
\* the input records, each exactly as often as in the input, and every record
\* is in the one group whose key is createKey of its name.
C1_EveryRecordOnceInItsGroup ==
  Grouped =>
    /\ SameMultiset(Flatten(namesDictionary), data)
    /\ \A g, h \in 1..Len(namesDictionary) :
         namesDictionary[g].key = namesDictionary[h].key => g = h
    /\ \A g \in 1..Len(namesDictionary) :
         \A i \in 1..Len(namesDictionary[g].value) :
           createKey(namesDictionary[g].value[i][2])
             = Ok(namesDictionary[g].key)

C1_Witness ==
  /\ Grouped
  /\ Len(data) = 3
  /\ Len(namesDictionary) = 2
  /\ data[1] = data[3]

\* C2: for a name of exactly 2 or 3 parts createKey returns
\* lowercase(part 0) + '^' + lowercase(part 1); for 2 parts that is the whole
\* lowercased name.
C2_KeyIsLowercaseLastFirst ==
  (pc = "returned" /\ ~Malformed(completeName)) =>
    /\ key = Ok(lower(Parts(completeName)[1]) \o <<"^">>
                  \o lower(Parts(completeName)[2]))
    /\ Len(Parts(completeName)) = 2 => key.value = lower(completeName)

C2_Witness ==
  /\ pc = "returned"
  /\ completeName = <<"A", "^", "b", "^", "A">>
  /\ key = Ok(<<"a", "^", "b">>)

\* C3: the keys of the table are in the order of their first occurrence in
\* the input, and every group holds its records in input order.
C3_FirstSeenKeysInputOrderRecords ==
  Grouped =>
    LET first == FirstOccurrences(data)
    IN /\ Len(namesDictionary) = Len(first)
       /\ \A g \in 1..Len(namesDictionary) :
            /\ namesDictionary[g].key = KeyOf(data[first[g]])
            /\ namesDictionary[g].value
                 = SelectSeq(data, LAMBDA r : KeyOf(r) = namesDictionary[g].key)

C3_Witness ==
  /\ Grouped
  /\ Len(data) = 3
  /\ Len(namesDictionary) = 2
  /\ KeyOf(data[1]) = KeyOf(data[3])
  /\ data[1] # data[3]
  /\ namesDictionary[1].value = <<data[1], data[3]>>

\* C4: after sortDictbyPidDesc every group is in non-increasing order of the
\* number of the patient ID, and records of equal number keep the relative
\* order they had before the sort.
C4_DescendingAndStable ==
  Sorted =>
    LET before == Before
    IN /\ Len(sortedDictionary) = Len(before)
       /\ \A g \in 1..Len(sortedDictionary) :
            LET v == sortedDictionary[g].value
                b == before[g].value
            IN /\ \A i \in 1..(Len(v) - 1) : Number(v[i]) >= Number(v[i+1])
               /\ \A n \in {Number(b[i]) : i \in 1..Len(b)} :
                    SelectSeq(v, LAMBDA r : Number(r) = n)
                      = SelectSeq(b, LAMBDA r : Number(r) = n)

C4_Witness ==
  /\ Sorted
  /\ Len(sortedDictionary) = 1
  /\ Len(sortedDictionary[1].value) = 3
  /\ Number(data[1]) = 1 /\ Number(data[2]) = 3 /\ Number(data[3]) = 1
  /\ data[1] # data[3]
  /\ sortedDictionary[1].value = <<data[2], data[1], data[3]>>

\* C5: sortDictbyPidDesc keeps the keys, their order and the multiset of
\* records of every group; only the order inside a group may change.
C5_SortKeepsKeysAndMembers ==
  AfterSort =>
    LET before == Before
    IN /\ Len(namesDictionary) = Len(before)
       /\ \A g \in 1..Len(namesDictionary) :
            /\ namesDictionary[g].key = before[g].key
            /\ SameMultiset(namesDictionary[g].value, before[g].value)

C5_Witness ==
  /\ Sorted
  /\ Len(namesDictionary) = 2
  /\ Len(data) = 3
  /\ namesDictionary[1].value = <<data[3], data[1]>>
  /\ namesDictionary[2].value = <<data[2]>>

\* the two reports with the marker line between them
BothReports ==
  printOutput(Before) \o <<Marker>>
    \o printOutput(sortDictbyPidDesc(Before).value)

\* C6: a run of main ends with both reports fully printed or with no output
\* at all (the claim as stated; the code prints the first report before the
\* sort can raise).
C6_NoPartialOutput ==
  /\ pc = "raised" => stdout = <<>>
  /\ pc = "done" => stdout = BothReports

\* C7: createDictionary raises for an input with a name that is not of 2 or 3
\* parts, the error being createKey's when that name is reached, and no table
\* is returned to main.
C7_MalformedNameFailsGrouping ==
  (pc \notin {"readInputFile", "createDictionary"} /\ HasMalformedName(data)) =>
    /\ pc = "raised"
    /\ namesDictionary = <<>>
    /\ error \in {NameError, IndexError}
    /\ (\A i \in 1..Len(data) : Len(data[i]) >= 2) => error = NameError

C7_Witness ==
  /\ pc = "raised"
  /\ error = NameError
  /\ Len(data) = 2
  /\ ~Malformed(data[1][2])
  /\ Len(Parts(data[2][2])) = 4

\* C8: when a record of the input has a malformed name, nothing is ever
\* printed.
C8_MalformedNameNoOutput ==
  HasMalformedName(data) => stdout = <<>>

C8_Witness ==
  /\ pc = "raised"
  /\ error = NameError
  /\ Len(data) = 3
  /\ ~Malformed(data[1][2])
  /\ ~Malformed(data[2][2])
  /\ Malformed(data[3][2])

\* the remainder of the ID is a non-negative integer written in digits only
DigitsOnly(id) ==
  /\ Len(DropPrefix(id)) > 0
  /\ \A i \in 1..Len(DropPrefix(id)) : IsDigit(DropPrefix(id)[i])

\* C9: the sort raises whenever the table holds an ID whose remainder is not
\* written in digits only (the claim as stated; int() takes a sign, blanks
\* and '_' as well).
C9_NonDigitIdFailsSort ==
  (AfterSort /\ \E i \in 1..Len(data) : ~DigitsOnly(data[i][1])) =>
    pc = "raised"

\* a row with another number of fields than 4 whose ID and name, where
\* present, are well formed
OddRow(row) ==
  /\ Len(row) # 4
  /\ Len(row) >= 1 => DigitsOnly(row[1])
  /\ Len(row) >= 2 => ~Malformed(row[2])

\* C10: a run on an input with a row of another number of fields than 4 ends
\* with an error and never prints that row (the claim as stated; csv.reader
\* does not check the number of fields).
C10_OddRowFailsRun ==
  \A i \in 1..Len(data) :
    OddRow(data[i]) =>
      /\ pc # "done"
      /\ \A l \in 1..Len(stdout) : stdout[l] # join(<<",">>, data[i])

====
